---- MODULE Spec2Model ----
(***************************************************************************)
(* diagnose_search.py: a one-shot diagnostic pipeline.  main() runs six    *)
(* stages in order; stages 1-3 halt the run on failure, stage 4 decides    *)
(* whether stage 6 runs, stages 5 and 6 are best effort.                   *)
(*                                                                         *)
(* The external collaborators (SentenceTransformer, os.getenv, the         *)
(* supabase client) are the environment: every call either returns one of  *)
(* a bounded set of values or raises.  Each stage function is an operator  *)
(* from what the environment answered to                                   *)
(*     [ret, out, calls, raised]                                           *)
(* ret: the value returned to main, out: the lines printed, calls: the     *)
(* external calls made, raised: an exception left the function.            *)
(***************************************************************************)
EXTENDS Integers, Sequences, FiniteSets, TLC

VARIABLES
    pc,         \* main's position: lib, env, conn, rpc, sample, gate, live, complete, done, crashed
    out,        \* stdout: the stage-level lines printed so far
    probe,      \* test_basic_libraries: what load/encode of "test" answered
    model,      \* main: truth value of `model` (line 177)
    env,        \* the two environment variables as read by os.getenv
    conn,       \* test_database_connection: what the store answered
    supabase,   \* main: truth value of `supabase` (line 187)
    rpcResp,    \* test_rpc_function: what the rpc answered
    rpc_works,  \* main: rpc_works (line 192)
    rows,       \* test_sample_data: the response of the sample fetch
    chunks,     \* test_sample_data: the per-chunk lines it printed
    qi,         \* test_actual_search: index of the next query of the loop
    attempted,  \* test_actual_search: the queries the loop has taken up, in order
    calls       \* external calls made so far, by kind

vars == <<pc, out, probe, model, env, conn, supabase, rpcResp, rpc_works,
          rows, chunks, qi, attempted, calls>>

-----------------------------------------------------------------------------
(* Program constants *)

EmbeddingDim == 384
SampleLimit == 3

(* Bounds of the environment *)

MaxCount == 1
MaxResults == 1

-----------------------------------------------------------------------------
(* Values *)

Msg(m, n) == [m |-> m, n |-> n]

NoCalls == [load |-> 0, encode |-> 0, client |-> 0, table |-> 0, rpc |-> 0]

AddCalls(a, b) ==
    [load |-> a.load + b.load, encode |-> a.encode + b.encode,
     client |-> a.client + b.client, table |-> a.table + b.table,
     rpc |-> a.rpc + b.rpc]

Call(kind) == [NoCalls EXCEPT ![kind] = 1]

Result(ret, o, c) == [ret |-> ret, out |-> o, calls |-> c, raised |-> FALSE]

NoAnswer == [k |-> "unset", n |-> 0]

-----------------------------------------------------------------------------
(* Stage 1 *)

Dims == {EmbeddingDim, 2 * EmbeddingDim}

\* load raises | encode raises | encode returns an array of shape (1, n)
ProbeOutcomes ==
    {[k |-> "load_raise", n |-> 0], [k |-> "encode_raise", n |-> 0]}
    \cup {[k |-> "array", n |-> d] : d \in Dims}

\* Mutant: the stage also fails on a shape other than (1, 384).
test_basic_libraries_ShapeChecked(p) ==
    LET head == <<Msg("section", 1)>>
        both == AddCalls(Call("load"), Call("encode"))
    IN
    IF p.k = "load_raise"
    THEN Result(FALSE, head \o <<Msg("lib_err", 0)>>, Call("load"))
    ELSE IF p.k = "encode_raise" \/ p.n # EmbeddingDim
    THEN Result(FALSE, head \o <<Msg("lib_err", 0)>>, both)
    ELSE Result(TRUE, head \o <<Msg("lib_ok", p.n)>>, both)

test_basic_libraries(p) ==
    LET head == <<Msg("section", 1)>> IN
    IF p.k = "load_raise"
    THEN Result(FALSE, head \o <<Msg("lib_err", 0)>>, Call("load"))
    ELSE IF p.k = "encode_raise"
    THEN Result(FALSE, head \o <<Msg("lib_err", 0)>>,
                AddCalls(Call("load"), Call("encode")))
    ELSE Result(TRUE, head \o <<Msg("lib_ok", p.n)>>,
                AddCalls(Call("load"), Call("encode")))

-----------------------------------------------------------------------------
(* Stage 2 *)

EnvValues == {"unset", "empty", "set"}

\* Python truth value of what os.getenv returned: None and '' are false.
EnvTruthy(v) == v = "set"

test_environment(url, key) ==
    LET head == <<Msg("section", 2)>> IN
    IF ~EnvTruthy(url) \/ ~EnvTruthy(key)
    THEN Result(FALSE, head \o <<Msg("env_missing", 0)>>, NoCalls)
    ELSE Result(TRUE, head \o <<Msg("env_ok", 0)>>, NoCalls)

-----------------------------------------------------------------------------
(* Stage 3 *)

\* create_client raises | the count query raises | it returns a count, and
\* then the non-null-embedding query raises or returns 0 or 1 rows.
ConnOutcomes ==
    {[k |-> "client_raise", count |-> 0, emb |-> 0],
     [k |-> "count_raise", count |-> 0, emb |-> 0]}
    \cup {[k |-> "emb_raise", count |-> c, emb |-> 0] : c \in 0..MaxCount}
    \cup {[k |-> "answered", count |-> c, emb |-> e] : c \in 0..MaxCount, e \in 0..1}

\* Mutant: the total_chunks == 0 test (lines 60-62) is left out.
test_database_connection_NoZeroCheck(c) ==
    LET head == <<Msg("section", 3)>>
        err == <<Msg("conn_err", 0)>>
        one == AddCalls(Call("client"), Call("table"))
        two == AddCalls(one, Call("table"))
        counted == head \o <<Msg("client_ok", 0), Msg("connected", c.count)>>
    IN
    IF c.k = "client_raise"
    THEN Result(FALSE, head \o err, Call("client"))
    ELSE IF c.k = "count_raise"
    THEN Result(FALSE, head \o <<Msg("client_ok", 0)>> \o err, one)
    ELSE IF c.k = "emb_raise"
    THEN Result(FALSE, counted \o err, two)
    ELSE IF ~(c.emb > 0)
    THEN Result(FALSE, counted \o <<Msg("has_emb", 0), Msg("no_emb", 0)>>, two)
    ELSE Result(TRUE, counted \o <<Msg("has_emb", 1)>>, two)

test_database_connection(c) ==
    LET head == <<Msg("section", 3)>>
        err == <<Msg("conn_err", 0)>>
        one == AddCalls(Call("client"), Call("table"))
        two == AddCalls(one, Call("table"))
        counted == head \o <<Msg("client_ok", 0), Msg("connected", c.count)>>
    IN
    IF c.k = "client_raise"
    THEN Result(FALSE, head \o err, Call("client"))
    ELSE IF c.k = "count_raise"
    THEN Result(FALSE, head \o <<Msg("client_ok", 0)>> \o err, one)
    ELSE IF c.count = 0
    THEN Result(FALSE, counted \o <<Msg("zero_rows", 0)>>, one)
    ELSE IF c.k = "emb_raise"
    THEN Result(FALSE, counted \o err, two)
    ELSE IF ~(c.emb > 0)
    THEN Result(FALSE, counted \o <<Msg("has_emb", 0), Msg("no_emb", 0)>>, two)
    ELSE Result(TRUE, counted \o <<Msg("has_emb", 1)>>, two)

-----------------------------------------------------------------------------
(* Init, the first three steps of main *)

Init ==
    /\ pc = "lib"
    /\ out = <<>>
    /\ probe = NoAnswer
    /\ model = FALSE
    /\ env = [url |-> "unread", key |-> "unread"]
    /\ conn = [k |-> "unset", count |-> 0, emb |-> 0]
    /\ supabase = FALSE
    /\ rpcResp = NoAnswer
    /\ rpc_works = FALSE
    /\ rows = [k |-> "unset", data |-> <<>>]
    /\ chunks = <<>>
    /\ qi = 1
    /\ attempted = <<>>
    /\ calls = NoCalls

\* main, lines 177-180
Main_Library ==
    /\ pc = "lib"
    /\ \E p \in ProbeOutcomes :
        LET r == test_basic_libraries(p) IN
        /\ probe' = p
        /\ model' = r.ret
        /\ calls' = AddCalls(calls, r.calls)
        /\ out' = out \o r.out \o
                  (IF ~r.raised /\ ~r.ret THEN <<Msg("fatal", 1)>> ELSE <<>>)
        /\ pc' = IF r.raised THEN "crashed" ELSE IF ~r.ret THEN "done" ELSE "env"
    /\ UNCHANGED <<env, conn, supabase, rpcResp, rpc_works, rows, chunks, qi, attempted>>

\* Mutant: the return of line 185 is left out.
Main_Environment_NoReturn ==
    /\ pc = "env"
    /\ \E url \in EnvValues, key \in EnvValues :
        LET r == test_environment(url, key) IN
        /\ env' = [url |-> url, key |-> key]
        /\ calls' = AddCalls(calls, r.calls)
        /\ out' = out \o r.out \o (IF ~r.ret THEN <<Msg("fatal", 2)>> ELSE <<>>)
        /\ pc' = "conn"
    /\ UNCHANGED <<probe, model, conn, supabase, rpcResp, rpc_works, rows, chunks, qi, attempted>>

\* main, lines 182-185
Main_Environment ==
    /\ pc = "env"
    /\ \E url \in EnvValues, key \in EnvValues :
        LET r == test_environment(url, key) IN
        /\ env' = [url |-> url, key |-> key]
        /\ calls' = AddCalls(calls, r.calls)
        /\ out' = out \o r.out \o
                  (IF ~r.raised /\ ~r.ret THEN <<Msg("fatal", 2)>> ELSE <<>>)
        /\ pc' = IF r.raised THEN "crashed" ELSE IF ~r.ret THEN "done" ELSE "conn"
    /\ UNCHANGED <<probe, model, conn, supabase, rpcResp, rpc_works, rows, chunks, qi, attempted>>

\* main, lines 187-190
Main_Connection ==
    /\ pc = "conn"
    /\ \E c \in ConnOutcomes :
        LET r == test_database_connection(c) IN
        /\ conn' = c
        /\ supabase' = r.ret
        /\ calls' = AddCalls(calls, r.calls)
        /\ out' = out \o r.out \o
                  (IF ~r.raised /\ ~r.ret THEN <<Msg("fatal", 3)>> ELSE <<>>)
        /\ pc' = IF r.raised THEN "crashed" ELSE IF ~r.ret THEN "done" ELSE "rpc"
    /\ UNCHANGED <<probe, model, env, rpcResp, rpc_works, rows, chunks, qi, attempted>>

-----------------------------------------------------------------------------
(* Stage 4 *)

\* supabase.rpc(...).execute() raises | returns with data = None | returns
\* a list of n results
RpcResponses ==
    {[k |-> "raise", n |-> 0], [k |-> "none", n |-> 0]}
    \cup {[k |-> "data", n |-> n] : n \in 0..MaxResults}

\* len(x) raises TypeError when x is None
HasLen(resp) == resp.k = "data"

\* Mutant: the try of lines 83-103 does not catch what the rpc raises.
test_rpc_function_NoCatch(resp) ==
    LET head == <<Msg("section", 4)>> IN
    IF resp.k = "raise"
    THEN [ret |-> FALSE, out |-> head, calls |-> Call("rpc"), raised |-> TRUE]
    ELSE IF ~HasLen(resp)
    THEN Result(FALSE, head \o <<Msg("rpc_err", 0)>>, Call("rpc"))
    ELSE Result(TRUE, head \o <<Msg("rpc_ok", resp.n)>>, Call("rpc"))

test_rpc_function(resp) ==
    LET head == <<Msg("section", 4)>> IN
    IF resp.k = "raise" \/ ~HasLen(resp)
    THEN Result(FALSE, head \o <<Msg("rpc_err", 0)>>, Call("rpc"))
    ELSE Result(TRUE, head \o <<Msg("rpc_ok", resp.n)>>, Call("rpc"))

\* Mutant: a failed RPC Check is run again.
Main_Rpc_Retry ==
    /\ pc = "rpc"
    /\ \E resp \in RpcResponses :
        LET r == test_rpc_function(resp) IN
        /\ rpcResp' = resp
        /\ rpc_works' = r.ret
        /\ calls' = AddCalls(calls, r.calls)
        /\ out' = out \o r.out
        /\ pc' = IF r.ret \/ calls.rpc >= 1 THEN "sample" ELSE "rpc"
    /\ UNCHANGED <<probe, model, env, conn, supabase, rows, chunks, qi, attempted>>

\* main, line 192
Main_Rpc ==
    /\ pc = "rpc"
    /\ \E resp \in RpcResponses :
        LET r == test_rpc_function(resp) IN
        /\ rpcResp' = resp
        /\ rpc_works' = r.ret
        /\ calls' = AddCalls(calls, r.calls)
        /\ out' = out \o r.out
        /\ pc' = IF r.raised THEN "crashed" ELSE "sample"
    /\ UNCHANGED <<probe, model, env, conn, supabase, rows, chunks, qi, attempted>>

-----------------------------------------------------------------------------
(* Stage 5 *)

\* The content field of a fetched row: null, or a string.
Contents == {"null", "text"}

\* The embedding field of a fetched row: the key is missing, the value is
\* null, a list, a string, or some other (true) JSON value.
Embeddings ==
    {[kind |-> "missing", len |-> 0], [kind |-> "null", len |-> 0],
     [kind |-> "other", len |-> 1]}
    \cup {[kind |-> k, len |-> n] : k \in {"list", "str"}, n \in {0, EmbeddingDim}}

Rows == [content : Contents, embedding : Embeddings]

RECURSIVE SeqsUpTo(_, _)
SeqsUpTo(S, n) ==
    IF n = 0 THEN {<<>>}
    ELSE LET shorter == SeqsUpTo(S, n - 1) IN
         shorter \cup {Append(s, x) : s \in {t \in shorter : Len(t) = n - 1}, x \in S}

\* the fetch raises | returns with data = None | returns at most limit(3) rows
SampleResponses ==
    {[k |-> "raise", data |-> <<>>], [k |-> "none", data |-> <<>>]}
    \cup {[k |-> "data", data |-> d] : d \in SeqsUpTo(Rows, SampleLimit)}

\* Python truth value of chunk.get('embedding')
Truthy(e) ==
    CASE e.kind \in {"missing", "null"} -> FALSE
      [] e.kind \in {"list", "str"} -> e.len > 0
      [] OTHER -> TRUE

\* lines 117-126: the line printed for the embedding field
EmbeddingLine(e) ==
    IF Truthy(e)
    THEN IF e.kind = "list" THEN [tag |-> "list", len |-> e.len]
         ELSE IF e.kind = "str" THEN [tag |-> "string", len |-> e.len]
         ELSE [tag |-> "type", len |-> 0]
    ELSE [tag |-> "none", len |-> 0]

\* chunk.get('content', '')[:100] raises TypeError when the value is null
ContentSlices(row) == row.content # "null"

\* lines 112-126: the loop over result.data from row i on; acc: lines so far
RECURSIVE SampleLoop(_, _, _)
SampleLoop(data, i, acc) ==
    IF i > Len(data) THEN [lines |-> acc, error |-> FALSE]
    ELSE IF ~ContentSlices(data[i])
    THEN [lines |-> Append(acc, [i |-> i, emb |-> [tag |-> "cut", len |-> 0]]),
          error |-> TRUE]
    ELSE SampleLoop(data, i + 1,
                    Append(acc, [i |-> i, emb |-> EmbeddingLine(data[i].embedding)]))

\* ret: the chunk lines printed
test_sample_data(resp) ==
    LET head == <<Msg("section", 5)>>
        err == <<Msg("sample_err", 0)>>
        loop == SampleLoop(resp.data, 1, <<>>)
    IN
    IF resp.k # "data"
    THEN Result(<<>>, head \o err, Call("table"))
    ELSE Result(loop.lines, head \o (IF loop.error THEN err ELSE <<>>), Call("table"))

\* Mutant: an error inside Sample Inspection ends the run.
Main_Sample_Fatal ==
    /\ pc = "sample"
    /\ \E resp \in SampleResponses :
        LET r == test_sample_data(resp) IN
        /\ rows' = resp
        /\ chunks' = r.ret
        /\ calls' = AddCalls(calls, r.calls)
        /\ out' = out \o r.out
        /\ pc' = IF \E j \in 1..Len(r.out) : r.out[j].m = "sample_err"
                 THEN "done" ELSE "gate"
    /\ UNCHANGED <<probe, model, env, conn, supabase, rpcResp, rpc_works, qi, attempted>>

\* main, line 193
Main_Sample ==
    /\ pc = "sample"
    /\ \E resp \in SampleResponses :
        LET r == test_sample_data(resp) IN
        /\ rows' = resp
        /\ chunks' = r.ret
        /\ calls' = AddCalls(calls, r.calls)
        /\ out' = out \o r.out
        /\ pc' = IF r.raised THEN "crashed" ELSE "gate"
    /\ UNCHANGED <<probe, model, env, conn, supabase, rpcResp, rpc_works, qi, attempted>>

-----------------------------------------------------------------------------
(* Stage 6 *)

queries ==
    <<"software development process", "agile methodology",
      "testing procedures", "system architecture">>

\* Mutant: test_actual_search is called whatever rpc_works is.
Main_Search_Unguarded ==
    /\ pc = "gate"
    /\ out' = Append(out, Msg("section", 6))
    /\ qi' = 1
    /\ pc' = "live"
    /\ rows' = [k |-> "unset", data |-> <<>>]
    /\ chunks' = <<>>
    /\ UNCHANGED <<probe, model, env, conn, supabase, rpcResp, rpc_works, attempted, calls>>

\* main, lines 195-196, and the head of test_actual_search (lines 132-139).
\* Stage 5's response and chunk lines are not carried further.
Main_Search ==
    /\ pc = "gate"
    /\ rpc_works
    /\ out' = Append(out, Msg("section", 6))
    /\ qi' = 1
    /\ pc' = "live"
    /\ rows' = [k |-> "unset", data |-> <<>>]
    /\ chunks' = <<>>
    /\ UNCHANGED <<probe, model, env, conn, supabase, rpcResp, rpc_works, attempted, calls>>

\* main, lines 197-198
Main_Skip ==
    /\ pc = "gate"
    /\ ~rpc_works
    /\ out' = Append(out, Msg("skip", 0))
    /\ pc' = "complete"
    /\ rows' = [k |-> "unset", data |-> <<>>]
    /\ chunks' = <<>>
    /\ UNCHANGED <<probe, model, env, conn, supabase, rpcResp, rpc_works, qi, attempted, calls>>

Encodings == {"raise", "ok"}
TopContents == {"text", "null"}

\* Mutant: the try encloses the loop, so a failed query ends it.
SearchQuery_Break(i, enc, resp, top) ==
    LET head == <<Msg("query", i)>>
        failed == <<Msg("search_failed", i)>>
        both == AddCalls(Call("encode"), Call("rpc"))
    IN
    IF enc = "raise"
    THEN Result(FALSE, head \o failed, Call("encode"))
    ELSE IF resp.k = "raise" \/ ~HasLen(resp)
    THEN Result(FALSE, head \o failed, both)
    ELSE IF resp.n = 0
    THEN Result(TRUE, head \o <<Msg("results", 0), Msg("no_results", i)>>, both)
    ELSE IF top = "null"
    THEN Result(FALSE, head \o <<Msg("results", resp.n)>> \o failed, both)
    ELSE Result(TRUE, head \o <<Msg("results", resp.n), Msg("best", i)>>, both)

\* lines 142-170: one iteration of the loop, for query i.
\* ret: the loop goes on to the next query.
SearchQuery(i, enc, resp, top) ==
    LET head == <<Msg("query", i)>>
        failed == <<Msg("search_failed", i)>>
        both == AddCalls(Call("encode"), Call("rpc"))
    IN
    IF enc = "raise"
    THEN Result(TRUE, head \o failed, Call("encode"))
    ELSE IF resp.k = "raise" \/ ~HasLen(resp)
    THEN Result(TRUE, head \o failed, both)
    ELSE IF resp.n = 0
    THEN Result(TRUE, head \o <<Msg("results", 0), Msg("no_results", i)>>, both)
    ELSE IF top = "null"
    THEN Result(TRUE, head \o <<Msg("results", resp.n)>> \o failed, both)
    ELSE Result(TRUE, head \o <<Msg("results", resp.n), Msg("best", i)>>, both)

\* test_actual_search, lines 141-170: the iteration for queries[qi]
Search_Query ==
    /\ pc = "live"
    /\ qi <= Len(queries)
    /\ \E enc \in Encodings, resp \in RpcResponses, top \in TopContents :
        LET r == SearchQuery(qi, enc, resp, top) IN
        /\ attempted' = Append(attempted, queries[qi])
        /\ calls' = AddCalls(calls, r.calls)
        /\ out' = out \o r.out
        /\ qi' = qi + 1
        /\ pc' = IF r.raised THEN "crashed"
                 ELSE IF r.ret /\ qi < Len(queries) THEN "live" ELSE "complete"
    /\ UNCHANGED <<probe, model, env, conn, supabase, rpcResp, rpc_works, rows, chunks>>

\* main, lines 200-201
Main_Complete ==
    /\ pc = "complete"
    /\ out' = Append(out, Msg("complete", 0))
    /\ pc' = "done"
    /\ UNCHANGED <<probe, model, env, conn, supabase, rpcResp, rpc_works,
                   rows, chunks, qi, attempted, calls>>

-----------------------------------------------------------------------------
Next ==
    \/ Main_Library
    \/ Main_Environment
    \/ Main_Connection
    \/ Main_Rpc
    \/ Main_Sample
    \/ Main_Search
    \/ Main_Skip
    \/ Search_Query
    \/ Main_Complete

Spec == Init /\ [][Next]_vars

\* main runs on its one thread until it returns
FairSpec == Spec /\ WF_vars(Next)

-----------------------------------------------------------------------------
(* Reading stdout *)

Printed(m) == \E j \in 1..Len(out) : out[j].m = m

PrintedN(m, n) == \E j \in 1..Len(out) : out[j] = Msg(m, n)

Count(m, n) == Cardinality({j \in 1..Len(out) : out[j] = Msg(m, n)})

IsSection(x) == x.m = "section"

\* the stages started so far, by number, in the order they were started
Started == [j \in 1..Len(SelectSeq(out, IsSection)) |-> SelectSeq(out, IsSection)[j].n]

StageOrder == <<1, 2, 3, 4, 5, 6>>

UpTo(s) == SubSeq(StageOrder, 1, s)

\* what the environment answered, stage by stage
LibFailed == probe.k \in {"load_raise", "encode_raise"}
EnvFailed == env.url \in {"unset", "empty"} \/ env.key \in {"unset", "empty"}
ConnFailed == \/ conn.k \in {"client_raise", "count_raise", "emb_raise"}
              \/ conn.k = "answered" /\ (conn.count = 0 \/ conn.emb = 0)

-----------------------------------------------------------------------------
(* C1: once a fatal stage (1, 2 or 3) has failed, the stages started are    *)
(* exactly those up to the failed one, the run is over, the fatal line is   *)
(* printed and the completion section is not.                               *)
C1_FatalStops ==
    \A s \in 1..3 :
        (\/ s = 1 /\ LibFailed
         \/ s = 2 /\ EnvFailed
         \/ s = 3 /\ ConnFailed)
        => /\ pc = "done"
           /\ Started = UpTo(s)
           /\ PrintedN("fatal", s)
           /\ ~Printed("complete")
           /\ ~Printed("skip")
           /\ calls.rpc = 0
           /\ attempted = <<>>

C1_Witness ==
    /\ pc = "done"
    /\ EnvFailed
    /\ Started = UpTo(2)
    /\ PrintedN("fatal", 2)

(* C2: when the store is reachable and the row count is 0, stage 3 prints   *)
(* the zero-row line, main halts, and neither the non-null-embedding query  *)
(* nor the rpc nor any later stage is run.                                  *)
C2_ZeroRowsFatal ==
    (conn.k \in {"answered", "emb_raise"} /\ conn.count = 0)
    => /\ PrintedN("connected", 0)
       /\ Count("zero_rows", 0) = 1
       /\ PrintedN("fatal", 3)
       /\ pc = "done"
       /\ Started = UpTo(3)
       /\ calls.table = 1
       /\ calls.rpc = 0
       /\ ~Printed("has_emb")
       /\ ~Printed("complete")

C2_Witness ==
    /\ conn.k = "answered"
    /\ conn.count = 0
    /\ conn.emb = 1
    /\ pc = "done"
    /\ Printed("zero_rows")

(* C3: a run that passed stages 1-3 and has returned has run Sample        *)
(* Inspection after RPC Check, whatever RPC Check said, and has printed     *)
(* the completion section; with RPC Check passed it has also run Live      *)
(* Query Check on all queries - an error inside Sample Inspection changes  *)
(* none of this.                                                            *)
C3_NonFatalContinues ==
    /\ pc # "crashed"
    /\ (pc = "gate" /\ Printed("sample_err")) => ENABLED Next
    /\ (supabase /\ pc = "done")
       => /\ \E j \in 1..Len(Started) : Started[j] = 5
          /\ Count("complete", 0) = 1
          /\ rpc_works => (Started = UpTo(6) /\ attempted = queries)
          /\ ~rpc_works => Started = UpTo(5)

C3_Witness ==
    /\ pc = "done"
    /\ supabase
    /\ rpc_works
    /\ Printed("sample_err")
    /\ Started = UpTo(6)
    /\ attempted = queries
    /\ Printed("complete")

(* C4: Live Query Check is started exactly in the runs whose RPC Check      *)
(* reported success; after a reported RPC failure no query is encoded and   *)
(* no further search call is made, and Sample Inspection and the            *)
(* completion section still run.                                            *)
C4_RpcGatesLive ==
    /\ (\E j \in 1..Len(Started) : Started[j] = 6) => Printed("rpc_ok")
    /\ Printed("rpc_err")
       => /\ attempted = <<>>
          /\ ~Printed("query")
          /\ calls.encode = 1
          /\ calls.rpc = 1
    /\ (supabase /\ pc = "done")
       => /\ Printed("rpc_ok") <=> Started = UpTo(6)
          /\ Printed("rpc_err") <=> Printed("skip")
          /\ Printed("rpc_err") => (Started = UpTo(5) /\ Printed("complete"))

C4_Witness ==
    /\ pc = "done"
    /\ Printed("rpc_err")
    /\ Printed("skip")
    /\ Started = UpTo(5)
    /\ Printed("complete")

(* C5: the loop of Live Query Check takes up the fixed queries in order,    *)
(* each once; every query taken up is followed by its result count or its   *)
(* failure line; and once the stage is over all 4 have been taken up,       *)
(* whichever of them failed.                                                *)
QueryLines == SelectSeq(out, LAMBDA x : x.m = "query")

C5_AllQueries ==
    /\ Len(attempted) <= Len(queries)
    /\ attempted = SubSeq(queries, 1, Len(attempted))
    /\ Len(QueryLines) = Len(attempted)
    /\ \A j \in 1..Len(QueryLines) : QueryLines[j].n = j
    /\ \A j \in 1..Len(out) :
          out[j].m = "query"
          => /\ j < Len(out)
             /\ \/ out[j + 1].m = "results"
                \/ out[j + 1] = Msg("search_failed", out[j].n)
    /\ ((\E j \in 1..Len(Started) : Started[j] = 6) /\ pc \in {"complete", "done"})
       => /\ attempted = queries
          /\ Len(queries) = 4

C5_Witness ==
    /\ pc = "done"
    /\ attempted = queries
    /\ PrintedN("search_failed", 1)
    /\ PrintedN("search_failed", 3)
    /\ PrintedN("best", 2)
    /\ PrintedN("no_results", 4)

(* C6: RPC Check reports success exactly when the rpc returned without      *)
(* raising, whatever it returned (no results, some results, no payload),    *)
(* and Live Query Check is then enabled.                                    *)
C6_RpcSuccessIffReturned ==
    rpcResp.k # "unset"
    => /\ rpc_works <=> rpcResp.k # "raise"
       /\ Printed("rpc_ok") <=> rpcResp.k # "raise"
       /\ (pc = "done" /\ rpcResp.k # "raise") => Started = UpTo(6)

(* C7 as stated: Library Check succeeds only on a 384-dimensional vector;   *)
(* with any other dimensionality it does not report success and            *)
(* Environment Check is not started.                                        *)
C7_ShapeChecked ==
    /\ model => (probe.k = "array" /\ probe.n = EmbeddingDim)
    /\ (probe.k = "array" /\ probe.n # EmbeddingDim)
       => (~Printed("lib_ok") /\ Started = UpTo(1))

(* C7 amended: Library Check succeeds exactly when the model loads and      *)
(* encode returns, whatever the dimensionality; it prints the shape that   *)
(* was returned and main goes on to Environment Check.                      *)
C7_SucceedsOnAnyShape ==
    probe.k # "unset"
    => /\ model <=> probe.k = "array"
       /\ probe.k = "array"
          => /\ Count("lib_ok", probe.n) = 1
             /\ ~Printed("lib_err")
             /\ ~PrintedN("fatal", 1)
             /\ pc = "env" \/ (Len(Started) >= 2 /\ Started[2] = 2)
       /\ probe.k # "array"
          => /\ ~Printed("lib_ok")
             /\ PrintedN("fatal", 1)

C7_Witness ==
    /\ probe.k = "array"
    /\ probe.n # EmbeddingDim
    /\ PrintedN("lib_ok", probe.n)
    /\ Len(Started) >= 2
    /\ Started[2] = 2

(* C8: the stages started form a prefix of the order 1..6 (so none is       *)
(* started twice or out of turn), and a run that has returned ended either *)
(* in a fatal halt right after stage 1, 2 or 3 or in the completion        *)
(* section after stage 6 was done or skipped.                               *)
FatalHalt(s) ==
    /\ Started = UpTo(s)
    /\ out[Len(out)] = Msg("fatal", s)
    /\ ~Printed("complete")

NormalCompletion ==
    /\ out[Len(out)] = Msg("complete", 0)
    /\ Count("complete", 0) = 1
    /\ ~Printed("fatal")
    /\ \/ Started = UpTo(6) /\ attempted = queries /\ ~Printed("skip")
       \/ Started = UpTo(5) /\ attempted = <<>> /\ Count("skip", 0) = 1

C8_LinearOrder ==
    /\ Len(Started) <= Len(StageOrder)
    /\ Started = UpTo(Len(Started))
    /\ pc \in {"lib", "env", "conn", "rpc", "sample", "gate", "live", "complete", "done"}
    /\ pc = "lib" => Started = <<>>
    /\ pc = "env" => Started = UpTo(1)
    /\ pc = "conn" => Started = UpTo(2)
    /\ pc = "rpc" => Started = UpTo(3)
    /\ pc = "sample" => Started = UpTo(4)
    /\ pc = "gate" => Started = UpTo(5)
    /\ pc = "live" => Started = UpTo(6)
    /\ pc = "done" => (NormalCompletion \/ \E s \in 1..3 : FatalHalt(s))

C8_Witness ==
    /\ pc = "done"
    /\ NormalCompletion
    /\ Started = UpTo(6)
    /\ Printed("sample_err")

(* C9: Sample Inspection prints a line for every row it fetched, and the    *)
(* line classifies the embedding field by representation: a list as a      *)
(* vector with its length, a string as text with its length, and only a    *)
(* null or missing value as absent.                                         *)
ByRepresentation(e) ==
    CASE e.kind = "list" -> [tag |-> "list", len |-> e.len]
      [] e.kind = "str" -> [tag |-> "string", len |-> e.len]
      [] e.kind \in {"null", "missing"} -> [tag |-> "none", len |-> 0]
      [] OTHER -> [tag |-> "type", len |-> 0]

C9_EveryRowClassified ==
    (pc = "gate" /\ rows.k = "data")
    => /\ Len(chunks) = Len(rows.data)
       /\ \A i \in 1..Len(rows.data) :
             /\ i <= Len(chunks)
             /\ chunks[i] = [i |-> i, emb |-> ByRepresentation(rows.data[i].embedding)]

(* C10: every run returns, no exception leaves main, every error of an      *)
(* external call is reported once by the stage it occurred in and becomes  *)
(* that stage's failure outcome, and no call is made again.                 *)
ErrorsLocal ==
    /\ pc # "crashed"
    /\ probe.k \in {"load_raise", "encode_raise"}
       => (Count("lib_err", 0) = 1 /\ PrintedN("fatal", 1) /\ pc = "done")
    /\ (conn.k \in {"client_raise", "count_raise"} \/ (conn.k = "emb_raise" /\ conn.count # 0))
       => (Count("conn_err", 0) = 1 /\ PrintedN("fatal", 3) /\ pc = "done")
    /\ rpcResp.k = "raise"
       => (Count("rpc_err", 0) = 1 /\ ~rpc_works /\ pc \in {"sample", "gate", "complete", "done"})
    /\ rows.k = "raise"
       => (Count("sample_err", 0) = 1 /\ pc = "gate" /\ chunks = <<>>)
    /\ Count("sample_err", 0) <= 1
    /\ \A i \in 1..Len(queries) : Count("search_failed", i) <= 1
    /\ calls.load <= 1
    /\ calls.client <= 1
    /\ calls.table <= 3
    /\ calls.encode <= 1 + Len(attempted)
    /\ calls.rpc <= 1 + Len(attempted)

C10_ErrorsCaughtAndTerminates ==
    /\ <>(pc = "done")
    /\ []ErrorsLocal

C10_Witness ==
    /\ pc = "done"
    /\ rpcResp.k = "raise"
    /\ Printed("sample_err")
    /\ Printed("complete")
    /\ calls.rpc = 1
====
